---- MODULE Spec2Model ----
(***************************************************************************)
(* rainmeter-sys/native/wrapper.h as a state machine of the C preprocessor *)
(* working through a translation unit that includes it.                    *)
(*                                                                         *)
(* The state is the preprocessor's macro table, its position in wrapper.h  *)
(* (pc = 0: in the including translation unit), the #pragma once mark of   *)
(* the file, and what the processing has produced so far: the directives   *)
(* executed, the redefinition diagnostics, and the mode in which the two   *)
(* included headers were seen.                                             *)
(***************************************************************************)
EXTENDS Integers, Sequences, FiniteSets, TLC

VARIABLES macros, pc, once, entry, trace, diag, binding, linkage,
          inclusions, tuSteps

vars == <<macros, pc, once, entry, trace, diag, binding, linkage,
          inclusions, tuSteps>>

----------------------------------------------------------------------------
(* Bounds of the model *)

\* number of distinct tokens a non-empty replacement list is built from
MaxToken == 1

\* number of #define / #undef directives the including code executes
MaxTUDirectives == 2

\* number of times the including code says #include "wrapper.h"
MaxInclusions == 2

----------------------------------------------------------------------------
(* The macros wrapper.h is concerned with, and their possible definitions *)

CharsetMacros == {"UNICODE", "_UNICODE"}

UnguardedMacros == {"LIBRARY_EXPORTS", "WIN32_LEAN_AND_MEAN"}

MacroNames == CharsetMacros \cup UnguardedMacros

\* a replacement list is a sequence of tokens; <<>> is "#define X" with
\* nothing after the name
ReplacementLists == {<<>>} \cup {<<t>> : t \in 1..MaxToken}

\* a macro table maps the defined names to their replacement lists
MacroTables == UNION {[D -> ReplacementLists] : D \in SUBSET MacroNames}

NoMacros == [m \in {} |-> <<>>]

Defined(table, m) == m \in DOMAIN table

DefineIn(table, m, body) ==
    [x \in (DOMAIN table) \cup {m} |-> IF x = m THEN body ELSE table[x]]

UndefIn(table, m) == [x \in (DOMAIN table) \ {m} |-> table[x]]

\* C11 6.10.3p2: redefining an object-like macro is allowed only with an
\* identical replacement list; anything else requires a diagnostic
Conflicts(table, m, body) == Defined(table, m) /\ table[m] # body

----------------------------------------------------------------------------
(* The text of wrapper.h, one entry per line *)

Text == [op |-> "text", name |-> "", body |-> <<>>]

Dir(o, n) == [op |-> o, name |-> n, body |-> <<>>]

Windows_h == "Windows.h"

RainmeterAPI_h == "sdk/API/RainmeterAPI.h"

(* Variants of the text, each with one plausible slip; used to show that   *)
(* the properties below depend on the text as written                      *)

\* line 5 missing: LIBRARY_EXPORTS is never defined
wrapper_h_NoExportDefine == <<
    Text, Dir("pragma_once", ""), Text, Text, Text, Text, Text,
    Dir("ifndef", "UNICODE"), Dir("define", "UNICODE"), Dir("endif", ""),
    Dir("ifndef", "_UNICODE"), Dir("define", "_UNICODE"), Dir("endif", ""),
    Text, Text, Dir("define", "WIN32_LEAN_AND_MEAN"), Text,
    Dir("include", Windows_h), Dir("include", RainmeterAPI_h) >>

\* #define LIBRARY_EXPORTS written after the vendor include
wrapper_h_ExportsAfterInclude == <<
    Text, Dir("pragma_once", ""), Text, Text, Text, Text, Text,
    Dir("ifndef", "UNICODE"), Dir("define", "UNICODE"), Dir("endif", ""),
    Dir("ifndef", "_UNICODE"), Dir("define", "_UNICODE"), Dir("endif", ""),
    Text, Text, Dir("define", "WIN32_LEAN_AND_MEAN"), Text,
    Dir("include", Windows_h), Dir("include", RainmeterAPI_h),
    Dir("define", "LIBRARY_EXPORTS") >>

\* LIBRARY_EXPORTS guarded like the character-set macros
wrapper_h_GuardedExports == <<
    Text, Dir("pragma_once", ""), Text,
    Dir("ifndef", "LIBRARY_EXPORTS"), Dir("define", "LIBRARY_EXPORTS"),
    Dir("endif", ""), Text,
    Dir("ifndef", "UNICODE"), Dir("define", "UNICODE"), Dir("endif", ""),
    Dir("ifndef", "_UNICODE"), Dir("define", "_UNICODE"), Dir("endif", ""),
    Text, Text, Dir("define", "WIN32_LEAN_AND_MEAN"), Text,
    Dir("include", Windows_h), Dir("include", RainmeterAPI_h) >>

\* WIN32_LEAN_AND_MEAN guarded like the character-set macros
wrapper_h_GuardedLean == <<
    Text, Dir("pragma_once", ""), Text, Text,
    Dir("define", "LIBRARY_EXPORTS"), Text, Text,
    Dir("ifndef", "UNICODE"), Dir("define", "UNICODE"), Dir("endif", ""),
    Dir("ifndef", "_UNICODE"), Dir("define", "_UNICODE"), Dir("endif", ""),
    Text, Dir("ifndef", "WIN32_LEAN_AND_MEAN"),
    Dir("define", "WIN32_LEAN_AND_MEAN"), Dir("endif", ""),
    Dir("include", Windows_h), Dir("include", RainmeterAPI_h) >>

\* the UNICODE guard (lines 8 and 10) missing
wrapper_h_UnguardedUnicode == <<
    Text, Dir("pragma_once", ""), Text, Text,
    Dir("define", "LIBRARY_EXPORTS"), Text, Text,
    Text, Dir("define", "UNICODE"), Text,
    Dir("ifndef", "_UNICODE"), Dir("define", "_UNICODE"), Dir("endif", ""),
    Text, Text, Dir("define", "WIN32_LEAN_AND_MEAN"), Text,
    Dir("include", Windows_h), Dir("include", RainmeterAPI_h) >>

\* the _UNICODE guard (lines 11 and 13) missing
wrapper_h_Unguarded_UNICODE == <<
    Text, Dir("pragma_once", ""), Text, Text,
    Dir("define", "LIBRARY_EXPORTS"), Text, Text,
    Dir("ifndef", "UNICODE"), Dir("define", "UNICODE"), Dir("endif", ""),
    Text, Dir("define", "_UNICODE"), Text,
    Text, Text, Dir("define", "WIN32_LEAN_AND_MEAN"), Text,
    Dir("include", Windows_h), Dir("include", RainmeterAPI_h) >>

\* line 9 missing: the UNICODE guard defines nothing
wrapper_h_NoUnicodeDefine == <<
    Text, Dir("pragma_once", ""), Text, Text,
    Dir("define", "LIBRARY_EXPORTS"), Text, Text,
    Dir("ifndef", "UNICODE"), Text, Dir("endif", ""),
    Dir("ifndef", "_UNICODE"), Dir("define", "_UNICODE"), Dir("endif", ""),
    Text, Text, Dir("define", "WIN32_LEAN_AND_MEAN"), Text,
    Dir("include", Windows_h), Dir("include", RainmeterAPI_h) >>

\* line 16 missing: WIN32_LEAN_AND_MEAN is never defined
wrapper_h_NoLean == <<
    Text, Dir("pragma_once", ""), Text, Text,
    Dir("define", "LIBRARY_EXPORTS"), Text, Text,
    Dir("ifndef", "UNICODE"), Dir("define", "UNICODE"), Dir("endif", ""),
    Dir("ifndef", "_UNICODE"), Dir("define", "_UNICODE"), Dir("endif", ""),
    Text, Text, Text, Text,
    Dir("include", Windows_h), Dir("include", RainmeterAPI_h) >>

\* lines 16 and 18 exchanged: Windows.h included before the last #define
wrapper_h_IncludeFirst == <<
    Text, Dir("pragma_once", ""), Text, Text,
    Dir("define", "LIBRARY_EXPORTS"), Text, Text,
    Dir("ifndef", "UNICODE"), Dir("define", "UNICODE"), Dir("endif", ""),
    Dir("ifndef", "_UNICODE"), Dir("define", "_UNICODE"), Dir("endif", ""),
    Text, Text, Dir("include", Windows_h), Text,
    Dir("define", "WIN32_LEAN_AND_MEAN"), Dir("include", RainmeterAPI_h) >>

\* line 2 missing: no #pragma once
wrapper_h_NoPragmaOnce == <<
    Text, Text, Text, Text,
    Dir("define", "LIBRARY_EXPORTS"), Text, Text,
    Dir("ifndef", "UNICODE"), Dir("define", "UNICODE"), Dir("endif", ""),
    Dir("ifndef", "_UNICODE"), Dir("define", "_UNICODE"), Dir("endif", ""),
    Text, Text, Dir("define", "WIN32_LEAN_AND_MEAN"), Text,
    Dir("include", Windows_h), Dir("include", RainmeterAPI_h) >>

\* wrapper.h as written
wrapper_h == <<
    Text,                                    \*  1  // wrapper.h
    Dir("pragma_once", ""),                  \*  2  #pragma once
    Text,                                    \*  3
    Text,                                    \*  4  // Tell RainmeterAPI ...
    Dir("define", "LIBRARY_EXPORTS"),        \*  5  #define LIBRARY_EXPORTS
    Text,                                    \*  6
    Text,                                    \*  7  // Force the Windows headers ...
    Dir("ifndef", "UNICODE"),                \*  8  #ifndef UNICODE
    Dir("define", "UNICODE"),                \*  9    #define UNICODE
    Dir("endif", ""),                        \* 10  #endif
    Dir("ifndef", "_UNICODE"),               \* 11  #ifndef _UNICODE
    Dir("define", "_UNICODE"),               \* 12    #define _UNICODE
    Dir("endif", ""),                        \* 13  #endif
    Text,                                    \* 14
    Text,                                    \* 15  // Speed up compilation a bit
    Dir("define", "WIN32_LEAN_AND_MEAN"),    \* 16  #define WIN32_LEAN_AND_MEAN
    Text,                                    \* 17
    Dir("include", Windows_h),               \* 18  #include <Windows.h>
    Dir("include", RainmeterAPI_h)           \* 19  #include "sdk/API/RainmeterAPI.h"
>>

EndOfText == Len(wrapper_h) + 1

InHeader == pc \in 1..Len(wrapper_h)

Line == wrapper_h[pc]

\* the line after the #endif that closes the group opened just before line i
RECURSIVE AfterEndif(_, _)
AfterEndif(i, depth) ==
    IF i > Len(wrapper_h) THEN i
    ELSE IF wrapper_h[i].op = "ifndef" THEN AfterEndif(i + 1, depth + 1)
    ELSE IF wrapper_h[i].op = "endif"
         THEN IF depth = 0 THEN i + 1 ELSE AfterEndif(i + 1, depth - 1)
    ELSE AfterEndif(i + 1, depth)

----------------------------------------------------------------------------
(* The two headers wrapper.h includes *)

\* <Windows.h> binds each unprefixed entry point (GetModuleHandle) to its
\* wide form when UNICODE is defined and to its narrow form otherwise
PlatformBinding(table) == IF Defined(table, "UNICODE") THEN "W" ELSE "A"

\* RainmeterAPI.h declares its symbols for export when LIBRARY_EXPORTS is
\* defined and for import otherwise
VendorLinkage(table) ==
    IF Defined(table, "LIBRARY_EXPORTS") THEN "export" ELSE "import"

----------------------------------------------------------------------------
(* Initial state: the build environment may predefine any of the macros *)

Init ==
    /\ macros \in MacroTables
    /\ pc = 0
    /\ once = FALSE
    /\ entry = NoMacros
    /\ trace = <<>>
    /\ diag = {}
    /\ binding = "none"
    /\ linkage = "none"
    /\ inclusions = 0
    /\ tuSteps = 0

----------------------------------------------------------------------------
(* Directives of the including translation unit *)

TUDefine(m, body) ==
    /\ pc = 0
    /\ tuSteps < MaxTUDirectives
    /\ macros' = DefineIn(macros, m, body)
    /\ diag' = IF Conflicts(macros, m, body) THEN diag \cup {<<0, m>>} ELSE diag
    /\ tuSteps' = tuSteps + 1
    /\ UNCHANGED <<pc, once, entry, trace, binding, linkage, inclusions>>

TUUndef(m) ==
    /\ pc = 0
    /\ tuSteps < MaxTUDirectives
    /\ macros' = UndefIn(macros, m)
    /\ tuSteps' = tuSteps + 1
    /\ UNCHANGED <<pc, once, entry, trace, diag, binding, linkage, inclusions>>

\* #include "wrapper.h": a file marked by #pragma once is not opened again
TUInclude ==
    /\ pc = 0
    /\ inclusions < MaxInclusions
    /\ inclusions' = inclusions + 1
    /\ IF once
       THEN UNCHANGED <<pc, entry>>
       ELSE pc' = 1 /\ entry' = macros
    /\ UNCHANGED <<macros, once, trace, diag, binding, linkage, tuSteps>>

----------------------------------------------------------------------------
(* Lines of wrapper.h *)

TextLine ==
    /\ InHeader /\ Line.op = "text"
    /\ pc' = pc + 1
    /\ UNCHANGED <<macros, once, entry, trace, diag, binding, linkage,
                   inclusions, tuSteps>>

PragmaOnce ==
    /\ InHeader /\ Line.op = "pragma_once"
    /\ once' = TRUE
    /\ pc' = pc + 1
    /\ UNCHANGED <<macros, entry, trace, diag, binding, linkage,
                   inclusions, tuSteps>>

Define ==
    /\ InHeader /\ Line.op = "define"
    /\ macros' = DefineIn(macros, Line.name, Line.body)
    /\ diag' = IF Conflicts(macros, Line.name, Line.body)
               THEN diag \cup {<<pc, Line.name>>}
               ELSE diag
    /\ trace' = Append(trace, [line |-> pc, op |-> "define", name |-> Line.name])
    /\ pc' = pc + 1
    /\ UNCHANGED <<once, entry, binding, linkage, inclusions, tuSteps>>

Ifndef ==
    /\ InHeader /\ Line.op = "ifndef"
    /\ pc' = IF Defined(macros, Line.name) THEN AfterEndif(pc + 1, 0) ELSE pc + 1
    /\ trace' = Append(trace, [line |-> pc, op |-> "ifndef", name |-> Line.name])
    /\ UNCHANGED <<macros, once, entry, diag, binding, linkage,
                   inclusions, tuSteps>>

Endif ==
    /\ InHeader /\ Line.op = "endif"
    /\ pc' = pc + 1
    /\ UNCHANGED <<macros, once, entry, trace, diag, binding, linkage,
                   inclusions, tuSteps>>

Include ==
    /\ InHeader /\ Line.op = "include"
    /\ trace' = Append(trace, [line |-> pc, op |-> "include", name |-> Line.name])
    /\ binding' = IF Line.name = Windows_h
                  THEN PlatformBinding(macros) ELSE binding
    /\ linkage' = IF Line.name = RainmeterAPI_h
                  THEN VendorLinkage(macros) ELSE linkage
    /\ pc' = pc + 1
    /\ UNCHANGED <<macros, once, entry, diag, inclusions, tuSteps>>

\* end of wrapper.h: back to the including translation unit
EndOfFile ==
    /\ pc = EndOfText
    /\ pc' = 0
    /\ UNCHANGED <<macros, once, entry, trace, diag, binding, linkage,
                   inclusions, tuSteps>>

Next ==
    \/ \E m \in MacroNames, body \in ReplacementLists : TUDefine(m, body)
    \/ \E m \in MacroNames : TUUndef(m)
    \/ TUInclude
    \/ TextLine
    \/ PragmaOnce
    \/ Define
    \/ Ifndef
    \/ Endif
    \/ Include
    \/ EndOfFile

Spec == Init /\ [][Next]_vars

----------------------------------------------------------------------------
(* Vocabulary of the properties *)

\* redefinition diagnostics raised at a line of wrapper.h (line 0 is the
\* including code's own directive)
HeaderDiag == {d \in diag : d[1] > 0}

HasHeaderDiag(m) == \E d \in HeaderDiag : d[2] = m

\* positions in the trace of the executed directives of one kind and name
Events(o, n) == {i \in DOMAIN trace : trace[i].op = o /\ trace[i].name = n}

\* the preprocessor is about to execute #include of header h
AtInclude(h) == InHeader /\ Line.op = "include" /\ Line.name = h

\* wrapper.h has been processed to its last line
Processed == pc = EndOfText

\* m is defined on entry with a replacement list other than the empty one
\* wrapper.h writes
DefinedDifferently(table, m) == Conflicts(table, m, <<>>)

AllDefined(table) == \A m \in MacroNames : Defined(table, m)

----------------------------------------------------------------------------
(* C1: a translation unit that includes wrapper.h once, entering it with   *)
(* UNICODE, _UNICODE and LIBRARY_EXPORTS undefined, gets no redefinition   *)
(* diagnostic from wrapper.h, and LIBRARY_EXPORTS is defined when          *)
(* RainmeterAPI.h is included.                                             *)

C1_CleanEntry ==
    /\ inclusions = 1
    /\ \A m \in CharsetMacros \cup {"LIBRARY_EXPORTS"} : ~Defined(entry, m)

C1_Outcome ==
    /\ HeaderDiag = {}
    /\ AtInclude(RainmeterAPI_h) => Defined(macros, "LIBRARY_EXPORTS")

\* C1 as stated: fails when WIN32_LEAN_AND_MEAN is predefined with a value
C1_Original == C1_CleanEntry => C1_Outcome

\* C1 amended: WIN32_LEAN_AND_MEAN, too, is not defined with a non-empty
\* replacement list on entry
C1_Amended ==
    (C1_CleanEntry /\ ~DefinedDifferently(entry, "WIN32_LEAN_AND_MEAN"))
        => C1_Outcome

C1_Witness ==
    /\ C1_CleanEntry
    /\ Defined(entry, "WIN32_LEAN_AND_MEAN")
    /\ entry["WIN32_LEAN_AND_MEAN"] = <<>>
    /\ Processed
    /\ linkage = "export"

----------------------------------------------------------------------------
(* C2: including wrapper.h twice, from any starting macro table, raises    *)
(* no macro-redefinition diagnostic in wrapper.h.                          *)

\* C2 as stated: fails when LIBRARY_EXPORTS or WIN32_LEAN_AND_MEAN starts
\* with a non-empty replacement list (the first inclusion redefines it)
C2_Original == inclusions = 2 => HeaderDiag = {}

\* C2 amended: UNICODE and _UNICODE never raise a redefinition diagnostic in
\* wrapper.h, whatever the starting table and however often it is included;
\* and when the starting table does not define LIBRARY_EXPORTS or
\* WIN32_LEAN_AND_MEAN with a non-empty replacement list, wrapper.h raises
\* none at all
C2_Amended ==
    /\ \A m \in CharsetMacros : ~HasHeaderDiag(m)
    /\ (\A m \in UnguardedMacros : ~DefinedDifferently(entry, m))
           => HeaderDiag = {}

C2_Witness ==
    /\ inclusions = 2
    /\ pc = 0
    /\ DefinedDifferently(entry, "UNICODE")
    /\ DefinedDifferently(entry, "_UNICODE")
    /\ HeaderDiag = {}

----------------------------------------------------------------------------
(* C3: in the processing of wrapper.h every definition step (the #define   *)
(* of LIBRARY_EXPORTS and WIN32_LEAN_AND_MEAN, the guarded #define of      *)
(* UNICODE and _UNICODE) is executed before Windows.h is included,         *)
(* Windows.h is included before RainmeterAPI.h, and no #define follows an  *)
(* #include.                                                               *)

C3_Order ==
    \A i \in DOMAIN trace :
        trace[i].op = "include" =>
            /\ \A m \in UnguardedMacros :
                   \E j \in Events("define", m) : j < i
            /\ \A m \in CharsetMacros :
                   \E j \in Events("ifndef", m) : j < i
            /\ \A j \in DOMAIN trace :
                   j > i => trace[j].op = "include"
            /\ trace[i].name = RainmeterAPI_h =>
                   \E j \in Events("include", Windows_h) : j < i
            /\ trace[i].name = Windows_h =>
                   \A j \in Events("include", RainmeterAPI_h) : i < j

C3_Witness ==
    /\ Processed
    /\ Events("include", Windows_h) # {}
    /\ Events("include", RainmeterAPI_h) # {}
    /\ Events("define", "UNICODE") # {}
    /\ Events("define", "_UNICODE") = {}

----------------------------------------------------------------------------
(* C4: from any starting macro table, all four macros are defined when     *)
(* Windows.h is included and when RainmeterAPI.h is included.              *)

C4_AllDefinedAtIncludes ==
    (AtInclude(Windows_h) \/ AtInclude(RainmeterAPI_h)) => AllDefined(macros)

C4_Witness ==
    /\ AtInclude(Windows_h)
    /\ entry = NoMacros
    /\ AllDefined(macros)

----------------------------------------------------------------------------
(* C5: a character-set macro already defined on entry is not defined by    *)
(* wrapper.h: no #define of it is executed and, throughout the processing, *)
(* it keeps the replacement list it had on entry.                          *)

C5_GuardedFrame ==
    \A m \in CharsetMacros :
        (inclusions >= 1 /\ Defined(entry, m)) =>
            /\ Events("define", m) = {}
            /\ pc # 0 => (Defined(macros, m) /\ macros[m] = entry[m])

C5_Witness ==
    /\ Processed
    /\ DefinedDifferently(entry, "UNICODE")
    /\ macros["UNICODE"] = entry["UNICODE"]
    /\ ~Defined(entry, "_UNICODE")
    /\ Events("define", "_UNICODE") # {}

----------------------------------------------------------------------------
(* C6: a character-set or export macro defined differently before          *)
(* wrapper.h holds, after wrapper.h, the definition written in wrapper.h.  *)

\* C6 as stated: fails for UNICODE and _UNICODE, whose guards keep the
\* earlier definition
C6_Original ==
    Processed =>
        \A m \in CharsetMacros \cup {"LIBRARY_EXPORTS"} :
            DefinedDifferently(entry, m) => macros[m] = <<>>

\* C6 amended: the last definition wins for LIBRARY_EXPORTS only (wrapper.h
\* redefines it, with a redefinition diagnostic); UNICODE and _UNICODE keep
\* the earlier definition
C6_Amended ==
    Processed =>
        /\ DefinedDifferently(entry, "LIBRARY_EXPORTS") =>
               /\ macros["LIBRARY_EXPORTS"] = <<>>
               /\ HasHeaderDiag("LIBRARY_EXPORTS")
        /\ \A m \in CharsetMacros :
               DefinedDifferently(entry, m) => macros[m] = entry[m]

C6_Witness ==
    /\ Processed
    /\ DefinedDifferently(entry, "LIBRARY_EXPORTS")
    /\ DefinedDifferently(entry, "_UNICODE")
    /\ macros["LIBRARY_EXPORTS"] = <<>>
    /\ macros["_UNICODE"] # <<>>

----------------------------------------------------------------------------
(* C7: Windows.h, as included by wrapper.h, binds the unprefixed entry     *)
(* points to their wide forms and never to the narrow forms; the binding   *)
(* stays wide after wrapper.h.                                             *)

C7_WideBinding ==
    /\ binding # "A"
    /\ Events("include", Windows_h) # {} => binding = "W"

C7_Witness ==
    /\ pc = 0
    /\ inclusions >= 1
    /\ ~Defined(entry, "UNICODE")
    /\ ~Defined(macros, "UNICODE")
    /\ binding = "W"

----------------------------------------------------------------------------
(* C8: RainmeterAPI.h, as included by wrapper.h, is never seen in import   *)
(* mode: LIBRARY_EXPORTS is defined whenever it is included, so its export *)
(* branch is taken.                                                        *)

C8_NeverImport ==
    /\ linkage # "import"
    /\ AtInclude(RainmeterAPI_h) => VendorLinkage(macros) = "export"
    /\ Events("include", RainmeterAPI_h) # {} => linkage = "export"

C8_Witness ==
    /\ linkage = "export"
    /\ ~Defined(entry, "LIBRARY_EXPORTS")
    /\ Events("include", RainmeterAPI_h) # {}

----------------------------------------------------------------------------
(* C9: the #define of LIBRARY_EXPORTS and of WIN32_LEAN_AND_MEAN is        *)
(* executed whether or not the macro is already defined, and raises a      *)
(* redefinition diagnostic exactly when the macro was defined on entry     *)
(* with a non-empty replacement list; UNICODE and _UNICODE never raise one.*)

C9_Asymmetry ==
    (inclusions >= 1 /\ pc \in {0, EndOfText}) =>
        /\ \A m \in UnguardedMacros :
               /\ Events("define", m) # {}
               /\ HasHeaderDiag(m) <=> DefinedDifferently(entry, m)
        /\ \A m \in CharsetMacros : ~HasHeaderDiag(m)

C9_Witness ==
    /\ Processed
    /\ DefinedDifferently(entry, "LIBRARY_EXPORTS")
    /\ DefinedDifferently(entry, "UNICODE")
    /\ Defined(entry, "WIN32_LEAN_AND_MEAN")
    /\ ~DefinedDifferently(entry, "WIN32_LEAN_AND_MEAN")
    /\ HeaderDiag = {<<5, "LIBRARY_EXPORTS">>}

----------------------------------------------------------------------------
(* C10: once wrapper.h has been processed, a further #include of it        *)
(* executes nothing: the position stays in the including code and the      *)
(* macro table, the diagnostics, the executed directives and the included  *)
(* headers are unchanged, whatever the including code did to the macros in *)
(* between.                                                                *)

C10_Idempotent ==
    [][(inclusions >= 1 /\ pc = 0) =>
           /\ trace' = trace
           /\ binding' = binding
           /\ linkage' = linkage
           /\ inclusions' # inclusions =>
                  (pc' = 0 /\ macros' = macros /\ diag' = diag)]_vars

C10_Witness ==
    /\ inclusions = 2
    /\ pc = 0
    /\ ~Defined(macros, "LIBRARY_EXPORTS")
    /\ Events("define", "LIBRARY_EXPORTS") = {1}

====
